---- MODULE Spec2Model ----
(***************************************************************************)
(* A model of src/osmem.c: a heap allocator (os_malloc, os_free,           *)
(* os_calloc, os_realloc) over sbrk, mmap and munmap.                      *)
(*                                                                         *)
(* Memory is modelled at the granularity of 8-byte words: mem maps a byte  *)
(* address (a multiple of 8) to the value stored there; a word that is not *)
(* in the domain of mem reads as 0 (fresh pages of the kernel are zero).   *)
(* A block header (struct block_meta) is four words: size, status, prev,   *)
(* next.  Pointers are byte addresses, NULL is 0.                          *)
(***************************************************************************)
EXTENDS Integers, Sequences, FiniteSets, TLC

(***************************************************************************)
(* Program constants.                                                      *)
(***************************************************************************)
META_SIZE == 32
MMAP_THRESHOLD == 128 * 1024
ALIGNMENT == 8
PAGE_SIZE == 4096
NULL == 0

\* struct block_meta { size_t size; int status; prev; next; }: byte offsets.
OFF_SIZE == 0
OFF_STATUS == 8
OFF_PREV == 16
OFF_NEXT == 24

STATUS_FREE == 0
STATUS_ALLOC == 1
STATUS_MAPPED == 2

(***************************************************************************)
(* Bounds of the model.                                                    *)
(***************************************************************************)
\* number of client calls in a run
MaxOps == 4
\* number of pointers the client holds at a time
MaxLive == 3
\* number of address slots the kernel hands out to mmap
MaxMaps == 2
\* number of calls of the client of the heap-backed paths
MaxSmallOps == 6
\* number of calls of the client that passes released pointers
MaxMisuseOps == 5

(***************************************************************************)
(* The address space.  The program break starts at HeapStart; mmap places  *)
(* a mapping in one of MaxMaps slots above MapBase, MapStride apart.  The  *)
(* break cannot grow into the mapping area nor shrink below HeapStart.     *)
(***************************************************************************)
HeapStart == PAGE_SIZE
MapBase == 512 * PAGE_SIZE
MapStride == 128 * PAGE_SIZE
SlotAddr(slot) == MapBase + slot * MapStride
NoSlot == -1

\* size_t and pointer arithmetic is modular.  TLC integers are 32 bits wide,
\* so the model keeps the modular structure in a narrower word; every
\* address and size of the model is below SizeMod \div 2, where the signed
\* reading of a difference agrees with the one of a 64-bit word.
SizeMod == 2 ^ 30
ToSizeT(x) == x % SizeMod
ToSigned(x) == IF ToSizeT(x) >= SizeMod \div 2 THEN ToSizeT(x) - SizeMod ELSE ToSizeT(x)

\* (size + (ALIGNMENT - 1)) & ~(ALIGNMENT - 1)
Align(size) == (ToSizeT(size + (ALIGNMENT - 1)) \div ALIGNMENT) * ALIGNMENT

PageUp(a) == ((a + PAGE_SIZE - 1) \div PAGE_SIZE) * PAGE_SIZE

(***************************************************************************)
(* Words of memory.                                                        *)
(***************************************************************************)
Rd(m, a) == IF a \in DOMAIN m THEN m[a] ELSE 0

Wr(m, a, v) ==
    IF v = 0
    THEN [x \in DOMAIN m \ {a} |-> m[x]]
    ELSE [x \in DOMAIN m \cup {a} |-> IF x = a THEN v ELSE m[x]]

\* The process state an allocator function works on:
\*   mem, brk, global_base, last, maps: the memory, the program break, the
\*     two globals of osmem.c and the live mappings [addr, len];
\*   fault: "none", or how the process ended ("segv": access to an unmapped
\*     address; "die": DIE() after a failed system call; "hang": a loop that
\*     never ends);
\*   calls: the system calls of the current client call, in order;
\*   oom: mmap was asked for a mapping when no slot is left.
InHeap(st, a) == a >= HeapStart /\ a < PageUp(st.brk)
InMap(st, a) == \E m \in st.maps : a >= m.addr /\ a < m.addr + PageUp(m.len)
Accessible(st, a) == InHeap(st, a) \/ InMap(st, a)
\* the four words of the header at b can be read and written
HdrOk(st, b) == Accessible(st, b) /\ Accessible(st, b + OFF_NEXT)
\* the bytes [a, a + n) can be read and written
RangeOk(st, a, n) == n = 0 \/ (Accessible(st, a) /\ Accessible(st, a + n - 8))

Fault(st, how) == [st EXCEPT !.fault = how]
Faulty(st) == st.fault # "none"
Ret(st, ret) == [st |-> st, ret |-> ret]

Size(st, b) == Rd(st.mem, b + OFF_SIZE)
Status(st, b) == Rd(st.mem, b + OFF_STATUS)
Prev(st, b) == Rd(st.mem, b + OFF_PREV)
NextOf(st, b) == Rd(st.mem, b + OFF_NEXT)

\* An access to a header outside the mapped memory ends the process; no
\* function does anything to a process that has ended.
Touch(st, b) ==
    IF Faulty(st) \/ HdrOk(st, b) THEN st ELSE Fault(st, "segv")

SetField(st, b, off, v) ==
    IF Faulty(st) THEN st
    ELSE IF ~HdrOk(st, b) THEN Fault(st, "segv")
    ELSE [st EXCEPT !.mem = Wr(@, b + off, v)]

SetSize(st, b, v) == SetField(st, b, OFF_SIZE, ToSizeT(v))
SetStatus(st, b, v) == SetField(st, b, OFF_STATUS, v)
SetPrev(st, b, v) == SetField(st, b, OFF_PREV, v)
SetNext(st, b, v) == SetField(st, b, OFF_NEXT, v)

\* memset(a, 0, n)
memset0(st, a, n) ==
    IF Faulty(st) THEN st
    ELSE IF ~RangeOk(st, a, n) THEN Fault(st, "segv")
    ELSE [st EXCEPT !.mem = [x \in {y \in DOMAIN st.mem : y < a \/ y >= a + n}
                                |-> st.mem[x]]]

\* memcpy(dest, src, n)
memcpy(st, dest, src, n) ==
    IF Faulty(st) THEN st
    ELSE IF ~(RangeOk(st, dest, n) /\ RangeOk(st, src, n)) THEN Fault(st, "segv")
    ELSE LET InDest(x) == x >= dest /\ x < dest + n
             copied == {dest + (y - src) : y \in {z \in DOMAIN st.mem : z >= src /\ z < src + n}}
             kept == {y \in DOMAIN st.mem : ~InDest(y)}
         IN  [st EXCEPT !.mem = [x \in kept \cup copied |->
                                    IF InDest(x) THEN st.mem[x - dest + src] ELSE st.mem[x]]]

(***************************************************************************)
(* The system calls.                                                       *)
(***************************************************************************)
\* sbrk(inc): moves the break by the signed increment and returns the old
\* break, or -1.  Pages wholly above a lowered break are given back.
sbrk(st, inc) ==
    LET nb == st.brk + ToSigned(inc)
        logged == [st EXCEPT !.calls = Append(@, [fn |-> "sbrk", n |-> ToSigned(inc)])]
    IN  IF nb < HeapStart \/ nb > MapBase
        THEN Ret(logged, -1)
        ELSE Ret([logged EXCEPT
                    !.brk = nb,
                    !.mem = [a \in {x \in DOMAIN st.mem : x >= MapBase \/ x < PageUp(nb)}
                                |-> st.mem[a]]],
                 st.brk)

\* mmap(NULL, len, ..., MAP_ANONYMOUS): a fresh zero mapping in the slot.
mmap(st, len, slot) ==
    IF slot = NoSlot
    THEN Ret([st EXCEPT !.oom = TRUE], -1)
    ELSE Ret([st EXCEPT
                !.maps = @ \cup {[addr |-> SlotAddr(slot), len |-> len]},
                !.calls = Append(@, [fn |-> "mmap", n |-> len])],
             SlotAddr(slot))

\* munmap(addr, len): EINVAL (-1) for an address that is not page aligned or
\* a length of 0; else every page of [addr, addr + len) leaves its mapping.
munmap(st, addr, len) ==
    LET logged == [st EXCEPT !.calls = Append(@, [fn |-> "munmap", n |-> len])]
        end == addr + PageUp(len)
        Rest(m) ==
            IF m.addr >= end \/ m.addr + PageUp(m.len) <= addr THEN {m}
            ELSE (IF m.addr < addr
                  THEN {[addr |-> m.addr, len |-> addr - m.addr]} ELSE {})
                 \cup
                 (IF m.addr + PageUp(m.len) > end
                  THEN {[addr |-> end, len |-> m.addr + PageUp(m.len) - end]} ELSE {})
    IN  IF addr % PAGE_SIZE # 0 \/ len = 0
        THEN Ret(logged, -1)
        ELSE Ret([logged EXCEPT
                    !.maps = UNION {Rest(m) : m \in st.maps},
                    !.mem = [a \in {x \in DOMAIN st.mem :
                                      x < MapBase \/ x < addr \/ x >= end}
                                |-> st.mem[a]]],
                 0)

(***************************************************************************)
(* The functions of osmem.c.  A function that returns a pointer yields     *)
(* [st, ret]; os_free and coalesce yield the state.  A statement of the    *)
(* source is an operator from the state before it to the state after it.   *)
(***************************************************************************)
\* b->next = src->next
CopyNext(s, b, src) == SetNext(s, b, NextOf(s, src))
\* if (b->next) b->next->prev = v
SetPrevOfNext(s, b, v) ==
    IF NextOf(s, b) # NULL THEN SetPrev(s, NextOf(s, b), v) ELSE s
\* b->size += n
AddToSize(s, b, n) == SetSize(s, b, Size(s, b) + n)
\* if (last == b) last = v
MoveLast(s, b, v) == IF s.last = b THEN [s EXCEPT !.last = v] ELSE s
\* DIE(request == (void *)-1, ...)
Die(r) == Ret(Fault(r.st, "die"), NULL)

\* preallocate a big chunk of memory
preallocate(st, size) ==
    LET r == sbrk(st, MMAP_THRESHOLD)
        block == r.ret
        s1 == SetSize(r.st, block, size)
        s2 == SetStatus(s1, block, STATUS_ALLOC)
        s3 == SetNext(s2, block, NULL)
        s4 == SetPrev(s3, block, NULL)
    IN  IF r.ret = -1
        THEN Die(r)
        ELSE Ret([s4 EXCEPT !.global_base = block, !.last = block], block + META_SIZE)

\* request_mmap as it would be if it put the block at the end of the list
request_mmap_listed(st, size, slot) ==
    LET r == mmap(st, size + META_SIZE, slot)
        block == r.ret
        s1 == SetSize(r.st, block, size)
        s2 == SetStatus(s1, block, STATUS_MAPPED)
    IN  IF r.ret = -1
        THEN Die(r)
        ELSE Ret([s2 EXCEPT !.last = block], block + META_SIZE)

\* creates a block of memory of the given size using mmap
request_mmap(st, size, slot) ==
    LET r == mmap(st, size + META_SIZE, slot)
        block == r.ret
        s1 == SetSize(r.st, block, size)
        s2 == SetStatus(s1, block, STATUS_MAPPED)
    IN  IF r.ret = -1
        THEN Die(r)
        ELSE Ret(s2, block + META_SIZE)

\* The loop of find_best_block from block on: [fault, blk].  A block met a
\* second time means the loop never ends, for it changes no memory.
RECURSIVE FindBestFrom(_, _, _, _, _, _)
FindBestFrom(st, block, size, best_fit_size, best_fit_block, seen) ==
    IF block = NULL THEN [fault |-> "none", blk |-> best_fit_block]
    ELSE IF block \in seen THEN [fault |-> "hang", blk |-> NULL]
    ELSE IF ~HdrOk(st, block) THEN [fault |-> "segv", blk |-> NULL]
    ELSE IF Status(st, block) = STATUS_FREE /\ Size(st, block) >= size
            /\ Size(st, block) < best_fit_size
         THEN FindBestFrom(st, NextOf(st, block), size, Size(st, block), block,
                           seen \cup {block})
         ELSE FindBestFrom(st, NextOf(st, block), size, best_fit_size, best_fit_block,
                           seen \cup {block})

\* search the whole list of blocks and return the best fitting free block
find_best_block(st, size) ==
    FindBestFrom(st, st.global_base, size, MMAP_THRESHOLD, NULL, {})

\* if (block->next == NULL) last = block
LastIfTail(s, block) ==
    IF NextOf(s, block) = NULL THEN [s EXCEPT !.last = block] ELSE s

\* if it is possible, split the best_fit_block in 2 blocks
try_split(st, best_fit_block, size) ==
    LET remaining_size == ToSizeT(Size(st, best_fit_block) - size)
        block == best_fit_block + size + META_SIZE
        s1 == SetSize(st, block, remaining_size - META_SIZE)
        s2 == SetStatus(s1, block, STATUS_FREE)
        s3 == CopyNext(s2, block, best_fit_block)
        s4 == SetPrev(s3, block, best_fit_block)
        s5 == SetSize(s4, best_fit_block, size)
        s6 == SetStatus(s5, best_fit_block, STATUS_ALLOC)
        s7 == SetPrevOfNext(s6, best_fit_block, block)
        s8 == SetNext(s7, best_fit_block, block)
        s9 == LastIfTail(s8, block)
    IN  IF remaining_size >= META_SIZE + 1
        THEN Ret(s9, best_fit_block + META_SIZE)
        ELSE Ret(SetStatus(st, best_fit_block, STATUS_ALLOC), best_fit_block + META_SIZE)

\* expand_last as it would be with the header left out of the increment
expand_last_short(st, size) ==
    LET real_size == ToSizeT(st.brk - st.last)
        new_size == Align(ToSizeT(size - real_size))
        r == sbrk(st, new_size)
        s1 == SetSize(r.st, st.last, size)
        s2 == SetStatus(s1, st.last, STATUS_ALLOC)
    IN  IF r.ret = -1
        THEN Die(r)
        ELSE Ret(s2, st.last + META_SIZE)

\* expand the size of the last block to be equal to the given parameter
expand_last(st, size) ==
    LET real_size == ToSizeT(st.brk - st.last)
        new_size == Align(ToSizeT(size - real_size + META_SIZE))
        r == sbrk(st, new_size)
        s1 == SetSize(r.st, st.last, size)
        s2 == SetStatus(s1, st.last, STATUS_ALLOC)
    IN  IF r.ret = -1
        THEN Die(r)
        ELSE Ret(s2, st.last + META_SIZE)

\* creates a new block with size equal to the given parameter
create_new_block(st, size) ==
    LET r == sbrk(st, size + META_SIZE)
        block == r.ret
        s1 == SetSize(r.st, block, size)
        s2 == SetStatus(s1, block, STATUS_ALLOC)
        s3 == SetNext(s2, st.last, block)
        s4 == SetPrev(s3, block, st.last)
        s5 == SetNext(s4, block, NULL)
    IN  IF r.ret = -1
        THEN Die(r)
        ELSE Ret([s5 EXCEPT !.last = block], block + META_SIZE)

os_malloc(st, size0, slot) ==
    LET size == Align(size0)
        best == find_best_block(st, size)
    IN  IF size0 = 0 THEN Ret(st, NULL)
        ELSE IF size >= MMAP_THRESHOLD THEN request_mmap(st, size, slot)
        ELSE IF st.global_base = NULL THEN preallocate(st, size)
        ELSE IF best.fault # "none" THEN Ret(Fault(st, best.fault), NULL)
        ELSE IF best.blk # NULL THEN try_split(st, best.blk, size)
        ELSE IF ~HdrOk(st, st.last) THEN Ret(Fault(st, "segv"), NULL)
        ELSE IF Status(st, st.last) = STATUS_FREE /\ Size(st, st.last) < size
             THEN expand_last(st, size)
        ELSE create_new_block(st, size)

\* os_free, lines 190-201: the merge of block into a free prev_block
MergeIntoPrev(s, block, prev_block, next_block) ==
    LET s1 == AddToSize(s, prev_block, Size(s, block) + META_SIZE)
        s2 == SetNext(s1, prev_block, next_block)
        s3 == IF next_block # NULL THEN SetPrev(s2, next_block, prev_block) ELSE s2
    IN  MoveLast(s3, block, prev_block)

\* os_free, lines 203-212: the merge of a free next_block into block
MergeNext(s, block, next_block) ==
    LET s1 == AddToSize(s, block, Size(s, next_block) + META_SIZE)
        s2 == CopyNext(s1, block, next_block)
        s3 == SetPrevOfNext(s2, next_block, block)
    IN  MoveLast(s3, next_block, block)

\* if (prev_block && prev_block->status == 0) { ... }
FreePrevStep(s, block, prev_block, next_block) ==
    IF prev_block = NULL THEN s
    ELSE IF ~HdrOk(s, prev_block) THEN Fault(s, "segv")
    ELSE IF Status(s, prev_block) = STATUS_FREE
         THEN MergeIntoPrev(s, block, prev_block, next_block)
    ELSE s

\* if (next_block && next_block->status == 0) { ... }
FreeNextStep(s, block, next_block) ==
    IF next_block = NULL \/ Faulty(s) THEN s
    ELSE IF ~HdrOk(s, next_block) THEN Fault(s, "segv")
    ELSE IF Status(s, next_block) = STATUS_FREE THEN MergeNext(s, block, next_block)
    ELSE s

\* os_free, lines 185-214: block->status == 1
FreeHeapBlock(s, block) ==
    LET prev_block == Prev(s, block)
        next_block == NextOf(s, block)
        merged == prev_block # NULL /\ HdrOk(s, prev_block)
                  /\ Status(s, prev_block) = STATUS_FREE
        blk == IF merged THEN prev_block ELSE block
        s1 == FreePrevStep(s, block, prev_block, next_block)
        s2 == FreeNextStep(s1, blk, next_block)
    IN  SetStatus(s2, blk, STATUS_FREE)

\* os_free, lines 215-218: block->status == 2
FreeMappedBlock(s, block) ==
    LET u == munmap(s, block, Size(s, block) + META_SIZE)
    IN  IF u.ret = -1 THEN Fault(u.st, "die") ELSE u.st

os_free(st, ptr) ==
    LET block == ptr - META_SIZE
    IN  IF ptr = NULL \/ Faulty(st) THEN st
        ELSE IF ~HdrOk(st, block) THEN Fault(st, "segv")
        ELSE IF Status(st, block) = STATUS_FREE THEN st
        ELSE IF Status(st, block) = STATUS_ALLOC THEN FreeHeapBlock(st, block)
        ELSE IF Status(st, block) = STATUS_MAPPED THEN FreeMappedBlock(st, block)
        ELSE st

\* if (ptr != NULL) memset(ptr, 0, total_size); return ptr;
ZeroFill(r, total_size) ==
    IF r.ret # NULL THEN Ret(memset0(r.st, r.ret, total_size), r.ret) ELSE r

os_calloc(st, nmemb, size, slot) ==
    LET total_size == Align(ToSizeT(nmemb * size))
        m == mmap(st, total_size + META_SIZE, slot)
        block == m.ret
        s1 == SetSize(m.st, block, total_size)
        s2 == SetStatus(s1, block, STATUS_MAPPED)
        s3 == memset0(s2, block + META_SIZE, total_size)
    IN  IF size = 0 \/ nmemb = 0 THEN Ret(st, NULL)
        ELSE IF total_size + META_SIZE > PAGE_SIZE
             THEN Ret(s3, block + META_SIZE)
        ELSE ZeroFill(os_malloc(st, total_size, slot), total_size)

\* coalesce, lines 262-272: the body of the if
CoalesceNext(s, block, next_block) ==
    LET s1 == IF NextOf(s, next_block) = NULL
              THEN AddToSize(s, block, Size(s, next_block) + META_SIZE)
              ELSE AddToSize(s, block, ToSizeT(NextOf(s, next_block) - next_block))
        s2 == SetPrevOfNext(s1, next_block, block)
    IN  CopyNext(s2, block, next_block)

\* we coalesce the current block with the next block
coalesce(st, block) ==
    LET next_block == NextOf(st, block)
    IN  IF ~HdrOk(st, next_block) THEN Fault(st, "segv")
        ELSE IF Status(st, next_block) = STATUS_FREE /\ next_block # NULL
             THEN CoalesceNext(st, block, next_block)
        ELSE st

\* memcpy(dest, ptr, n); os_free(ptr); return dest;  with dest = r.ret
MoveInto(r, ptr, n) ==
    Ret(os_free(memcpy(r.st, r.ret, ptr, n), ptr), r.ret)

\* split_realloc, lines 296-310: block->status == 1
SplitOff(st, block, size, remaining_size) ==
    LET remaining_block == block + size + META_SIZE
        s1 == SetSize(st, remaining_block, remaining_size)
        s2 == SetStatus(s1, remaining_block, STATUS_FREE)
        s3 == CopyNext(s2, remaining_block, block)
        s4 == SetPrevOfNext(s3, block, remaining_block)
        s5 == SetPrev(s4, remaining_block, block)
        s6 == SetNext(s5, block, remaining_block)
        s7 == SetSize(s6, block, size)
    IN  SetStatus(s7, block, STATUS_ALLOC)

\* if we can, we split the block, in order for it to have the given size
split_realloc(st, block, ptr, size0, slot) ==
    LET size == Align(size0)
        remaining_size == ToSizeT(Size(st, block) - size - META_SIZE)
    IN  IF ToSigned(remaining_size) <= 0
        THEN Ret(SetSize(st, block, size), block + META_SIZE)
        ELSE IF Status(st, block) = STATUS_MAPPED
             THEN MoveInto(os_malloc(st, size, slot), ptr, size)
        ELSE IF Status(st, block) = STATUS_ALLOC
             THEN Ret(SplitOff(st, block, size, remaining_size), block + META_SIZE)
        ELSE Ret(st, NULL)

\* memcpy(dest, ptr, block->size); os_free(ptr); return dest;  with dest = r.ret
MoveOut(r, block, ptr) ==
    MoveInto(r, ptr, Size(r.st, block))

\* os_realloc, lines 352-367: after coalesce(block), s the state it left
GrowInList(s, block, ptr, size, real_size, slot) ==
    IF Faulty(s) THEN Ret(s, NULL)
    ELSE IF Size(s, block) = size THEN Ret(SetSize(s, block, size), ptr)
    ELSE IF real_size >= size THEN split_realloc(s, block, ptr, size, slot)
    ELSE IF Size(s, block) > size THEN split_realloc(s, block, ptr, size, slot)
    ELSE MoveOut(os_malloc(s, size, slot), block, ptr)

os_realloc(st, ptr, size0, slot) ==
    LET block == ptr - META_SIZE
        size == Align(size0)
        real_size == ToSizeT(NextOf(st, block) - block - META_SIZE)
    IN  IF ptr = NULL THEN os_malloc(st, size0, slot)
        ELSE IF size0 = 0 THEN Ret(os_free(st, ptr), NULL)
        ELSE IF ~HdrOk(st, block) THEN Ret(Fault(st, "segv"), NULL)
        ELSE IF Status(st, block) = STATUS_FREE THEN Ret(st, NULL)
        ELSE IF size0 = Size(st, block) THEN Ret(st, ptr)
        ELSE IF size0 < Size(st, block) THEN split_realloc(st, block, ptr, size0, slot)
        ELSE IF NextOf(st, block) = NULL
             THEN expand_last([st EXCEPT !.last = block], size)
        ELSE GrowInList(coalesce(st, block), block, ptr, size, real_size, slot)

(***************************************************************************)
(* The client.  Every action is one call of a public function, run to      *)
(* completion.                                                             *)
(***************************************************************************)
VARIABLES
    mem,          \* the words of memory that are not zero
    brk,          \* the program break (the heap top)
    global_base,  \* the first block of the list, or NULL
    last,         \* the last block of the list, or NULL
    maps,         \* the live mappings, [addr, len]
    fault,        \* "none", or how the process ended
    calls,        \* the system calls of the latest client call
    live,         \* pointer -> bytes asked for, of the client's live allocations
    released,     \* the pointers released and not returned again since
    op,           \* the latest client call, its arguments and its result
    nops          \* the number of client calls so far

vars == <<mem, brk, global_base, last, maps, fault, calls, live, released, op, nops>>

\* What the client asks for: the sizes it passes to os_malloc, the (nmemb,
\* size) pairs it passes to os_calloc, the sizes it passes to os_realloc, and
\* how many calls it makes.
Full == [alloc |-> {12, 4000, 131060, 200000},
         calloc |-> {<<3, 4>>, <<1, 5000>>},
         realloc |-> {0, 12, 4000, 199990, 200001},
         ops |-> MaxOps]
\* A client of the heap-backed paths alone, which makes more calls; 3952 is
\* the size of the suffix that shrinking a block of 4000 to 16 leaves.
Small == [alloc |-> {12, 3952, 4000},
          calloc |-> {<<3, 4>>, <<500, 8>>},
          realloc |-> {12, 4000},
          ops |-> MaxSmallOps]
\* The client of Full that also passes pointers it has released.
Careless == [Full EXCEPT !.ops = MaxMisuseOps]

St == [mem |-> mem, brk |-> brk, global_base |-> global_base, last |-> last,
       maps |-> maps, fault |-> fault, calls |-> <<>>, oom |-> FALSE]

\* The slots mmap may pick.  A call is tried without a slot first; only a call
\* that asks mmap for a mapping is given one.
\* the free slots: those no page of a mapping lies in
FreeSlots ==
    {s \in 0 .. MaxMaps - 1 :
        \A m \in maps : m.addr + PageUp(m.len) <= SlotAddr(s)
                        \/ m.addr >= SlotAddr(s) + MapStride}

Init ==
    /\ mem = << >>
    /\ brk = HeapStart
    /\ global_base = NULL
    /\ last = NULL
    /\ maps = {}
    /\ fault = "none"
    /\ calls = << >>
    /\ live = << >>
    /\ released = {}
    /\ op = [fn |-> "init", ptr |-> NULL, size |-> 0, nmemb |-> 0, ret |-> NULL,
             fresh |-> TRUE]
    /\ nops = 0

\* The process state after a call.  A process that has ended has no memory
\* left to speak of: the state keeps what it was before the call.
Commit(s) ==
    /\ fault' = s.fault
    /\ calls' = s.calls
    /\ IF Faulty(s)
       THEN UNCHANGED <<mem, brk, global_base, last, maps>>
       ELSE /\ mem' = s.mem
            /\ brk' = s.brk
            /\ global_base' = s.global_base
            /\ last' = s.last
            /\ maps' = s.maps

Without(f, p) == [x \in DOMAIN f \ {p} |-> f[x]]
With(f, p, v) == [x \in DOMAIN f \cup {p} |-> IF x = p THEN v ELSE f[x]]

\* the client's books after a call that returned ret for n bytes
Returned(r, n) ==
    IF Faulty(r.st) \/ r.ret = NULL
    THEN UNCHANGED <<live, released>>
    ELSE /\ live' = With(live, r.ret, n)
         /\ released' = released \ {r.ret}

\* the client's books after a call that released ptr
Released(s, ptr) ==
    IF Faulty(s) \/ ptr = NULL
    THEN UNCHANGED <<live, released>>
    ELSE /\ live' = Without(live, ptr)
         /\ released' = released \cup {ptr}

Ready(c) == fault = "none" /\ nops < c.ops
Room == Cardinality(DOMAIN live) < MaxLive

\* what a call leaves: the process state, the client's books and the record
\* of the call itself
Done(r, fn, ptr, size, nmemb) ==
    /\ ~r.st.oom
    /\ Commit(r.st)
    /\ op' = [fn |-> fn, ptr |-> ptr, size |-> size, nmemb |-> nmemb,
              ret |-> r.ret, fresh |-> r.ret = ptr \/ r.ret \notin DOMAIN live]
    /\ nops' = nops + 1

\* os_malloc(size)
AfterMalloc(r, size) ==
    Done(r, "malloc", NULL, size, 0) /\ Returned(r, size)

Malloc(c) ==
    /\ Ready(c) /\ Room
    /\ \E size \in c.alloc :
          LET r == os_malloc(St, size, NoSlot)
          IN  IF r.st.oom
              THEN \E slot \in FreeSlots : AfterMalloc(os_malloc(St, size, slot), size)
              ELSE AfterMalloc(r, size)

\* os_calloc(nmemb, size)
AfterCalloc(r, nmemb, size) ==
    Done(r, "calloc", NULL, size, nmemb) /\ Returned(r, nmemb * size)

Calloc(c) ==
    /\ Ready(c) /\ Room
    /\ \E a \in c.calloc :
          LET r == os_calloc(St, a[1], a[2], NoSlot)
          IN  IF r.st.oom
              THEN \E slot \in FreeSlots :
                      AfterCalloc(os_calloc(St, a[1], a[2], slot), a[1], a[2])
              ELSE AfterCalloc(r, a[1], a[2])

\* os_free(ptr)
AfterFree(s, ptr) ==
    Done(Ret(s, NULL), "free", ptr, 0, 0) /\ Released(s, ptr)

\* os_free of a live pointer
Free(c) ==
    /\ Ready(c)
    /\ \E ptr \in DOMAIN live : AfterFree(os_free(St, ptr), ptr)

\* os_free of a pointer that was released already
FreeAgain(c) ==
    /\ Ready(c)
    /\ \E ptr \in released : AfterFree(os_free(St, ptr), ptr)

\* os_realloc(ptr, size)
AfterRealloc(r, ptr, size) ==
    /\ Done(r, "realloc", ptr, size, 0)
    /\ IF size = 0 THEN Released(r.st, ptr)
       ELSE IF Faulty(r.st) \/ r.ret = NULL THEN UNCHANGED <<live, released>>
       ELSE IF r.ret = ptr
            THEN /\ live' = With(live, ptr, size)
                 /\ released' = released \ {ptr}
       ELSE /\ live' = With(Without(live, ptr), r.ret, size)
            /\ released' = (released \cup {ptr}) \ {r.ret}

ReallocOf(c, ptr) ==
    \E size \in c.realloc :
        LET r == os_realloc(St, ptr, size, NoSlot)
        IN  IF r.st.oom
            THEN \E slot \in FreeSlots :
                    AfterRealloc(os_realloc(St, ptr, size, slot), ptr, size)
            ELSE AfterRealloc(r, ptr, size)

\* os_realloc of a live pointer
Realloc(c) ==
    /\ Ready(c)
    /\ \E ptr \in DOMAIN live : ReallocOf(c, ptr)

\* os_realloc of a pointer that was released already
ReallocReleased(c) ==
    /\ Ready(c)
    /\ \E ptr \in released : ReallocOf(c, ptr)

\* a client that passes live pointers only
Valid(c) == Malloc(c) \/ Calloc(c) \/ Free(c) \/ Realloc(c)
\* a client that also passes pointers it has released
Misuse(c) == FreeAgain(c) \/ ReallocReleased(c)

Next == Valid(Full)
NextMisuse == Valid(Careless) \/ Misuse(Careless)
NextSmall == Valid(Small)

Spec == Init /\ [][Next]_vars
SpecMisuse == Init /\ [][NextMisuse]_vars
SpecSmall == Init /\ [][NextSmall]_vars

(***************************************************************************)
(* The block directory: the blocks met by following next from global_base, *)
(* as find_best_block does.                                                *)
(***************************************************************************)
Range(seq) == {seq[i] : i \in 1 .. Len(seq)}

RECURSIVE DirFrom(_, _, _)
DirFrom(st, block, acc) ==
    IF block = NULL \/ block \in Range(acc) \/ ~HdrOk(st, block) THEN acc
    ELSE DirFrom(st, NextOf(st, block), Append(acc, block))

Dir(st) == DirFrom(st, st.global_base, << >>)

\* the header of a block, as a record
Hdr(st, b) == [size |-> Size(st, b), status |-> Status(st, b),
               prev |-> Prev(st, b), next |-> NextOf(st, b)]

\* the byte ranges [a, a + n) and [b, b + m) share a byte
Overlap(a, n, b, m) == a < b + m /\ b < a + n

\* [p, p + n) lies in storage the allocator owns: the heap below the break,
\* or a live mapping
Owned(p, n) ==
    \/ p >= HeapStart /\ p + n <= brk
    \/ \E m \in maps : p >= m.addr /\ p + n <= m.addr + m.len

\* the latest call was made and has returned
Completed == nops > 0 /\ fault = "none"

(***************************************************************************)
(* C1.  After any sequence of calls, os_malloc(size) with 0 < size < 128   *)
(* KiB returns a pointer that is not NULL, is 8-byte aligned and has at    *)
(* least size usable bytes: [p, p + size) lies inside the heap below the   *)
(* break or inside a live mapping, and the size the block records is at    *)
(* least size.                                                             *)
(***************************************************************************)
SmallMalloc == op.fn = "malloc" /\ op.size > 0 /\ op.size < MMAP_THRESHOLD

C1_MallocBacked ==
    (nops > 0 /\ SmallMalloc) =>
        /\ fault = "none"
        /\ op.ret # NULL
        /\ op.ret % ALIGNMENT = 0
        /\ Owned(op.ret, op.size)
        /\ Size(St, op.ret - META_SIZE) >= op.size

(***************************************************************************)
(* C2.  When the client passes live pointers only, the payloads            *)
(* [p, p + size) of the live allocations are pairwise disjoint, and none   *)
(* overlaps the header of a block of the directory or of the block last    *)
(* points to.                                                              *)
(***************************************************************************)
C2_PayloadsDisjoint ==
    Completed =>
        /\ op.fresh
        /\ \A p, q \in DOMAIN live :
              p # q => ~Overlap(p, live[p], q, live[q])
        /\ \A p \in DOMAIN live :
              \A b \in (Range(Dir(St)) \cup {last}) \ {NULL} :
                  ~Overlap(p, live[p], b, META_SIZE)

(***************************************************************************)
(* C3.  A second os_free(p) of a pointer that was released and not         *)
(* returned again since changes nothing: the memory (every header's size,  *)
(* status and links), last, global_base, the break and the mappings stay,  *)
(* the process goes on and munmap is not called.  Stated for the pointers  *)
(* of heap-backed blocks, whose header stays readable after the release.   *)
(***************************************************************************)
HeapPtr(p) == p >= HeapStart /\ p < MapBase

C3_DoubleFreeNoOp ==
    [][(nops' = nops + 1 /\ op'.fn = "free" /\ op'.ptr \in released
            /\ HeapPtr(op'.ptr)) =>
          /\ fault' = "none"
          /\ mem' = mem /\ last' = last /\ global_base' = global_base
          /\ brk' = brk /\ maps' = maps
          /\ \A i \in 1 .. Len(calls') : calls'[i].fn # "munmap"]_vars

(***************************************************************************)
(* C4.  After every call, no two consecutive entries of the directory (a   *)
(* block and its next) are both free.                                      *)
(***************************************************************************)
C4_NoAdjacentFree ==
    Completed =>
        \A b \in Range(Dir(St)) :
            ~(/\ Status(St, b) = STATUS_FREE
              /\ NextOf(St, b) # NULL
              /\ HdrOk(St, NextOf(St, b))
              /\ Status(St, NextOf(St, b)) = STATUS_FREE)

(***************************************************************************)
(* C5.  After every call, last is NULL iff the directory is empty, and     *)
(* else last is the entry reached by following next from global_base until *)
(* next is NULL.                                                           *)
(***************************************************************************)
C5_LastIsTail ==
    Completed =>
        /\ (last = NULL) <=> (Dir(St) = << >>)
        /\ Dir(St) # << >> => last = Dir(St)[Len(Dir(St))]

(***************************************************************************)
(* C6.  Best fit: when os_malloc takes the heap-backed path on a directory *)
(* that holds a free block of at least the rounded size, it returns the    *)
(* smallest such block (the lowest address among equals), whatever the     *)
(* sizes of the free blocks are, and it does not move the break.           *)
(***************************************************************************)
Fits(st, size) ==
    {b \in Range(Dir(st)) : Status(st, b) = STATUS_FREE /\ Size(st, b) >= size}

BestFit(st, size) ==
    CHOOSE b \in Fits(st, size) :
        \A c \in Fits(st, size) :
            Size(st, b) < Size(st, c) \/ (Size(st, b) = Size(st, c) /\ b <= c)

C6_BestFit ==
    [][(/\ nops' = nops + 1 /\ op'.fn = "malloc"
        /\ Align(op'.size) < MMAP_THRESHOLD
        /\ global_base # NULL
        /\ Fits(St, Align(op'.size)) # {}) =>
          /\ fault' = "none"
          /\ op'.ret = BestFit(St, Align(op'.size)) + META_SIZE
          /\ brk' = brk]_vars

(***************************************************************************)
(* C7.  Reuse without growth: when a heap-backed block is released and the *)
(* next call is os_malloc(s) with the rounded s at most the size of the    *)
(* free block the release left (after coalescing), that call returns the   *)
(* payload of that block and does not move the break.                      *)
(***************************************************************************)
\* the directory entry that holds the header of the block of p
EntryOf(st, p) ==
    LET below == {b \in Range(Dir(st)) : b <= p - META_SIZE}
    IN  IF below = {} THEN NULL
        ELSE CHOOSE b \in below : \A c \in below : c <= b

\* the latest call released a heap-backed block, which left a free block
JustFreed ==
    /\ Completed /\ op.fn = "free" /\ HeapPtr(op.ptr)
    /\ EntryOf(St, op.ptr) # NULL
    /\ Status(St, EntryOf(St, op.ptr)) = STATUS_FREE

C7_ReuseFreed ==
    [][(/\ JustFreed
        /\ nops' = nops + 1 /\ op'.fn = "malloc"
        /\ Align(op'.size) <= Size(St, EntryOf(St, op.ptr))) =>
          /\ fault' = "none"
          /\ op'.ret = EntryOf(St, op.ptr) + META_SIZE
          /\ brk' = brk]_vars

(***************************************************************************)
(* C8.  Coalescing does not depend on the order: for three consecutive     *)
(* allocated entries X, Y, Z of the directory whose outer neighbours are   *)
(* absent or allocated, releasing them in any of the 6 orders ends in the  *)
(* same directory, in which one free block stands in their place, at X,    *)
(* of size size(X) + size(Y) + size(Z) + 2 * META_SIZE, linked to the      *)
(* outer neighbours, and last is X if Z was the tail.                      *)
(***************************************************************************)
\* the triples <<X, Y, Z>> of the claim in the state st
Triples(st) ==
    LET d == Dir(st)
        Alloc(i) == Status(st, d[i]) = STATUS_ALLOC
    IN  {<<d[i], d[i + 1], d[i + 2]>> : i \in
            {j \in 1 .. Len(d) - 2 :
                /\ Alloc(j) /\ Alloc(j + 1) /\ Alloc(j + 2)
                /\ (j = 1 \/ Alloc(j - 1))
                /\ (j + 2 = Len(d) \/ Alloc(j + 3))}}

Orders(t) ==
    {<<t[a], t[b], t[c]>> : <<a, b, c>> \in
        {<<1, 2, 3>>, <<1, 3, 2>>, <<2, 1, 3>>, <<2, 3, 1>>, <<3, 1, 2>>, <<3, 2, 1>>}}

\* the state after os_free of the payloads of the three blocks, in the order o
FreeAll(st, o) ==
    os_free(os_free(os_free(st, o[1] + META_SIZE), o[2] + META_SIZE),
            o[3] + META_SIZE)

\* what the claim says of the state s that the releases of t = <<X, Y, Z>> in
\* the state st end in
OneFreeBlock(st, s, t) ==
    LET X == t[1]
        Y == t[2]
        Z == t[3]
        d == Dir(st)
    IN  /\ ~Faulty(s)
        /\ Dir(s) = SelectSeq(d, LAMBDA b : b # Y /\ b # Z)
        /\ Hdr(s, X) = [size |-> Size(st, X) + Size(st, Y) + Size(st, Z)
                                    + 2 * META_SIZE,
                        status |-> STATUS_FREE,
                        prev |-> Prev(st, X),
                        next |-> NextOf(st, Z)]
        /\ NextOf(st, Z) # NULL => Prev(s, NextOf(st, Z)) = X
        /\ Prev(st, X) # NULL => NextOf(s, Prev(st, X)) = X
        /\ s.last = (IF NextOf(st, Z) = NULL THEN X ELSE st.last)
        /\ s.brk = st.brk /\ s.global_base = st.global_base

C8_AnyOrderOneBlock ==
    Completed =>
        \A t \in Triples(St) : \A o \in Orders(t) :
            OneFreeBlock(St, FreeAll(St, o), t)

(***************************************************************************)
(* C9.  The large-object path: os_malloc(size) with a rounded size of at   *)
(* least 128 KiB calls mmap once, for META_SIZE + rounded size bytes,      *)
(* returns a block of status 2 and leaves global_base, last, every header  *)
(* of the heap and the break as they were; a later os_free of that pointer *)
(* calls munmap once, with the byte count the mapping was made with, and   *)
(* leaves them as they were too.                                           *)
(***************************************************************************)
\* the words of the heap
HeapMem(m) == [a \in {x \in DOMAIN m : x < MapBase} |-> m[a]]

DirectoryKept ==
    /\ global_base' = global_base /\ last' = last /\ brk' = brk
    /\ HeapMem(mem') = HeapMem(mem)

\* the mappings that start where the block of p starts
MappingsAt(p) == {m \in maps : m.addr = p - META_SIZE}

C9_LargeMapped ==
    [][/\ (nops' = nops + 1 /\ op'.fn = "malloc"
              /\ Align(op'.size) >= MMAP_THRESHOLD) =>
            /\ fault' = "none"
            /\ calls' = <<[fn |-> "mmap", n |-> META_SIZE + Align(op'.size)]>>
            /\ Status(St', op'.ret - META_SIZE) = STATUS_MAPPED
            /\ DirectoryKept
       /\ (nops' = nops + 1 /\ op'.fn = "free" /\ op'.ptr \in DOMAIN live
              /\ MappingsAt(op'.ptr) # {}) =>
            /\ fault' = "none"
            /\ \A m \in MappingsAt(op'.ptr) :
                  calls' = <<[fn |-> "munmap", n |-> m.len]>>
            /\ DirectoryKept]_vars

(***************************************************************************)
(* C10.  In-place growth of the tail: for a live pointer p of an allocated *)
(* block that is the tail of the directory, os_realloc(p, larger) returns  *)
(* p, the block's size becomes the rounded new size, the break ends at or  *)
(* above the end of the grown payload, no other entry of the directory     *)
(* changes and last is that block.                                         *)
(***************************************************************************)
\* p is the payload of an allocated block that is the tail of the directory
IsTail(st, p) ==
    /\ Dir(st) # << >>
    /\ Dir(st)[Len(Dir(st))] = p - META_SIZE
    /\ NextOf(st, p - META_SIZE) = NULL
    /\ Status(st, p - META_SIZE) = STATUS_ALLOC

C10_TailGrowsInPlace ==
    [][(/\ nops' = nops + 1 /\ op'.fn = "realloc"
        /\ op'.ptr \in DOMAIN live
        /\ IsTail(St, op'.ptr)
        /\ op'.size > Size(St, op'.ptr - META_SIZE)) =>
          LET block == op'.ptr - META_SIZE
          IN  /\ fault' = "none"
              /\ op'.ret = op'.ptr
              /\ Hdr(St', block) = [Hdr(St, block) EXCEPT !.size = Align(op'.size)]
              /\ brk' >= op'.ptr + Align(op'.size)
              /\ last' = block
              /\ global_base' = global_base
              /\ Dir(St') = Dir(St)
              /\ \A b \in Range(Dir(St)) \ {block} : Hdr(St', b) = Hdr(St, b)]_vars

\* a tail block has just been grown in place: the call moved the break up and
\* returned the pointer it was given, whose block is last and has the new size
C10_Witness ==
    /\ Completed /\ op.fn = "realloc"
    /\ op.ptr # NULL /\ op.ret = op.ptr /\ op.ptr \in DOMAIN live
    /\ Len(calls) = 1 /\ calls[1].fn = "sbrk" /\ calls[1].n > 0
    /\ IsTail(St, op.ptr)
    /\ last = op.ptr - META_SIZE
    /\ Size(St, op.ptr - META_SIZE) = Align(op.size)
    /\ Align(op.size) > op.size

(***************************************************************************)
(* C11.  Shrink with split: for a live pointer p of an allocated heap      *)
(* block, os_realloc(p, smaller) where the block's size less the rounded   *)
(* new size less a header is positive returns p, sets the block's size to  *)
(* the rounded new size and puts a Free block of the leftover right after  *)
(* it in the directory, linked in both directions.  When the leftover is   *)
(* below MMAP_THRESHOLD, os_malloc of the leftover's size from that state  *)
(* returns a Free block of that size (the new one, or an equal one met     *)
(* earlier) and leaves the break alone.                                    *)
(***************************************************************************)
\* b comes right after a in the directory
NextInDir(st, a, b) ==
    \E i \in 1 .. Len(Dir(st)) - 1 : Dir(st)[i] = a /\ Dir(st)[i + 1] = b

\* os_malloc(n) would return the payload of a Free block of n bytes of the
\* directory and not move the break
Reusable(st, n) ==
    LET r == os_malloc(st, n, NoSlot)
    IN  /\ ~r.st.oom /\ ~Faulty(r.st)
        /\ r.st.brk = st.brk
        /\ r.ret - META_SIZE \in Range(Dir(st))
        /\ Status(st, r.ret - META_SIZE) = STATUS_FREE
        /\ Size(st, r.ret - META_SIZE) = n

\* the call that is being made shrinks the allocated heap block of a live
\* pointer by more than a header
ShrinkWithSplit ==
    /\ nops' = nops + 1 /\ op'.fn = "realloc"
    /\ op'.ptr \in DOMAIN live /\ op'.size > 0
    /\ Status(St, op'.ptr - META_SIZE) = STATUS_ALLOC
    /\ Size(St, op'.ptr - META_SIZE) > Align(op'.size) + META_SIZE

C11_ShrinkSplits ==
    [][ShrinkWithSplit =>
          LET block == op'.ptr - META_SIZE
              size == Align(op'.size)
              left == Size(St, block) - size - META_SIZE
              remaining_block == block + size + META_SIZE
          IN  /\ fault' = "none"
              /\ op'.ret = op'.ptr
              /\ Hdr(St', block) = [Hdr(St, block) EXCEPT !.size = size,
                                                         !.next = remaining_block]
              /\ Hdr(St', remaining_block) =
                    [size |-> left, status |-> STATUS_FREE,
                     prev |-> block, next |-> NextOf(St, block)]
              /\ NextOf(St, block) # NULL =>
                    Prev(St', NextOf(St, block)) = remaining_block
              /\ NextInDir(St', block, remaining_block)
              /\ brk' = brk
              /\ left < MMAP_THRESHOLD => Reusable(St', left)]_vars

(***************************************************************************)
(* C12.  Shrinking a mapped block relocates: for a live pointer p of a     *)
(* block of status 2 and a size > 0 whose rounded value is below the       *)
(* block's size, os_realloc(p, size) returns a new pointer, whose block    *)
(* has the rounded size, and calls munmap once, on the old mapping and     *)
(* with the byte count it was made with; the old block's size is not       *)
(* written in place.                                                       *)
(***************************************************************************)
\* the system calls of cs that are calls of fn
CallsOf(cs, fn) == SelectSeq(cs, LAMBDA c : c.fn = fn)

\* the call that is being made is os_realloc of a live mapped block
ReallocMapped ==
    /\ nops' = nops + 1 /\ op'.fn = "realloc"
    /\ op'.ptr \in DOMAIN live /\ op'.size > 0
    /\ MappingsAt(op'.ptr) # {}
    /\ Status(St, op'.ptr - META_SIZE) = STATUS_MAPPED

\* the call returned a new block of the rounded size and gave the old
\* mapping back, whole and once
Relocated ==
    /\ fault' = "none"
    /\ op'.ret # NULL /\ op'.ret # op'.ptr
    /\ Size(St', op'.ret - META_SIZE) = Align(op'.size)
    /\ Status(St', op'.ret - META_SIZE) \in {STATUS_ALLOC, STATUS_MAPPED}
    /\ \A m \in MappingsAt(op'.ptr) :
          CallsOf(calls', "munmap") = <<[fn |-> "munmap", n |-> m.len]>>
    /\ \A m \in maps' : m.addr # op'.ptr - META_SIZE

C12_MappedShrinkMoves ==
    [][(ReallocMapped /\ Align(op'.size) < Size(St, op'.ptr - META_SIZE)) =>
          Relocated]_vars

(***************************************************************************)
(* C13.  Growing a mapped block relocates: for a live pointer p of a block *)
(* of status 2 (made by os_malloc or by os_calloc) and a size above the    *)
(* block's size, os_realloc(p, size) returns a new pointer, whose block    *)
(* has the rounded size, and calls munmap on the old mapping; it does not  *)
(* call sbrk when the new block is mapped too, does not make the old block *)
(* a block of status 1 and does not make last refer to it.                 *)
(***************************************************************************)
C13_MappedGrowMoves ==
    [][(ReallocMapped /\ op'.size > Size(St, op'.ptr - META_SIZE)) =>
          /\ Relocated
          /\ Status(St', op'.ret - META_SIZE) = STATUS_MAPPED =>
                CallsOf(calls', "sbrk") = << >>
          /\ Status(St', op'.ptr - META_SIZE) # STATUS_ALLOC
          /\ last' # op'.ptr - META_SIZE]_vars

(***************************************************************************)
(* C14.  os_realloc of a released block is rejected: for a heap pointer p  *)
(* that was released and not returned again since (its block still a Free  *)
(* entry of its own, or merged into a Free neighbour), os_realloc(p, n)    *)
(* with n > 0 returns NULL, makes no system call and leaves every header   *)
(* of the heap, global_base, last and the break as they were.              *)
(***************************************************************************)
C14_ReallocReleasedRejected ==
    [][(/\ nops' = nops + 1 /\ op'.fn = "realloc"
        /\ op'.ptr \in released /\ HeapPtr(op'.ptr)
        /\ op'.size > 0) =>
          /\ fault' = "none"
          /\ op'.ret = NULL
          /\ calls' = << >>
          /\ DirectoryKept]_vars

(***************************************************************************)
(* C15.  The threshold of os_calloc: for nmemb > 0 and size > 0, when      *)
(* META_SIZE + the rounded total is above one page, os_calloc calls mmap   *)
(* once, for META_SIZE + rounded total bytes, returns a block of status 2  *)
(* and leaves every header of the heap, global_base, last and the break as *)
(* they were; otherwise it returns the pointer and leaves the directory    *)
(* (global_base, last, the entries and their headers) and the break that   *)
(* os_malloc(rounded total) would from the same state.                     *)
(***************************************************************************)
\* the directory of st, entry by entry
DirState(st) ==
    [first |-> st.global_base, last |-> st.last, brk |-> st.brk,
     entries |-> [i \in 1 .. Len(Dir(st)) |-> <<Dir(st)[i], Hdr(st, Dir(st)[i])>>]]

\* the rounded total of the os_calloc call that is being made
TotalSize == Align(ToSizeT(op'.nmemb * op'.size))

\* the call that is being made is os_calloc of a total that is not zero
CallocCall ==
    /\ nops' = nops + 1 /\ op'.fn = "calloc"
    /\ op'.nmemb > 0 /\ op'.size > 0

C15_CallocThreshold ==
    [][CallocCall =>
          IF TotalSize + META_SIZE > PAGE_SIZE
          THEN /\ fault' = "none"
               /\ calls' = <<[fn |-> "mmap", n |-> META_SIZE + TotalSize]>>
               /\ Status(St', op'.ret - META_SIZE) = STATUS_MAPPED
               /\ Size(St', op'.ret - META_SIZE) = TotalSize
               /\ DirectoryKept
          ELSE LET r == os_malloc(St, TotalSize, NoSlot)
               IN  /\ fault' = r.st.fault
                   /\ ~Faulty(r.st) =>
                         /\ op'.ret = r.ret
                         /\ DirState(St') = DirState(r.st)]_vars

(***************************************************************************)
(* C16.  Zero fill: for nmemb > 0 and size > 0, after any sequence of      *)
(* calls os_calloc(nmemb, size) returns a pointer whose first nmemb * size *)
(* bytes can be read and read as zero, also when the block is a reused     *)
(* Free block that holds the headers of blocks merged into it.             *)
(***************************************************************************)
\* the addresses of the words of [p, p + n)
Words(p, n) == {p + ALIGNMENT * i : i \in 0 .. ((n + ALIGNMENT - 1) \div ALIGNMENT) - 1}

C16_CallocZero ==
    [][CallocCall =>
          /\ fault' = "none"
          /\ op'.ret # NULL
          /\ \A a \in Words(op'.ret, op'.nmemb * op'.size) :
                Accessible(St', a) /\ Rd(mem', a) = 0]_vars

(***************************************************************************)
(* C17.  After every call, following next from global_base visits blocks   *)
(* at strictly increasing addresses and ends at a NULL next; the prev of   *)
(* global_base is NULL; every visited block is the prev of its next; and   *)
(* the block of every live heap pointer is visited.                        *)
(***************************************************************************)
C17_ListWellFormed ==
    Completed =>
        /\ \A i \in 1 .. Len(Dir(St)) - 1 :
              /\ Dir(St)[i] < Dir(St)[i + 1]
              /\ Prev(St, Dir(St)[i + 1]) = Dir(St)[i]
        /\ global_base # NULL =>
              /\ Dir(St) # << >>
              /\ Prev(St, global_base) = NULL
              /\ NextOf(St, Dir(St)[Len(Dir(St))]) = NULL
        /\ \A p \in DOMAIN live : HeapPtr(p) => p - META_SIZE \in Range(Dir(St))

(***************************************************************************)
(* C18.  After every call, no block of status 2 and no block of a mapping  *)
(* is met by following next from global_base, is what last refers to, or   *)
(* is the prev or the next of an entry of the directory; and no call on a  *)
(* mapped block merges it with another block: os_free of it leaves the     *)
(* directory as it was, and os_realloc of it leaves the directory as it    *)
(* was or as the os_malloc of the new size alone leaves it.                *)
(***************************************************************************)
\* b is a block of status 2 or lies in the region of the mappings
IsMapped(st, b) == b >= MapBase \/ (HdrOk(st, b) /\ Status(st, b) = STATUS_MAPPED)

MappedOutsideList ==
    Completed =>
        /\ \A b \in Range(Dir(St)) :
              /\ ~IsMapped(St, b)
              /\ Prev(St, b) # NULL => ~IsMapped(St, Prev(St, b))
              /\ NextOf(St, b) # NULL => ~IsMapped(St, NextOf(St, b))
        /\ last # NULL => ~IsMapped(St, last)
        /\ global_base # NULL => ~IsMapped(St, global_base)

MappedNeverMerged ==
    (/\ nops' = nops + 1 /\ fault' = "none"
     /\ op'.fn \in {"free", "realloc"}
     /\ op'.ptr \in DOMAIN live
     /\ IsMapped(St, op'.ptr - META_SIZE)) =>
       \/ DirState(St') = DirState(St)
       \/ /\ op'.fn = "realloc" /\ op'.size > 0
          /\ DirState(St') = DirState(os_malloc(St, op'.size, NoSlot).st)

C18_MappedApart == [](MappedOutsideList) /\ [][MappedNeverMerged]_vars

\* a mapped block has just been moved into the heap while another mapping
\* is live and the directory is not empty
C18_Witness ==
    /\ Completed /\ op.fn = "realloc"
    /\ op.ptr >= MapBase /\ HeapPtr(op.ret)
    /\ Dir(St) # << >> /\ last # NULL
    /\ \E m \in maps : Status(St, m.addr) = STATUS_MAPPED

(***************************************************************************)
(* C19.  Grow by forward coalescing: for a live pointer p of an allocated  *)
(* block of the directory that is not the tail and whose next is Free,     *)
(* with last at the tail before the call, when size(p) + META_SIZE +       *)
(* size(next) >= the rounded new size > size(p), os_realloc returns p, the *)
(* block's size ends >= the rounded new size, the old next is no entry of  *)
(* the directory any more, an excess above a header is a Free block right  *)
(* after p, the break is not moved, every entry is the prev of its next    *)
(* and last is the tail of the directory.                                  *)
(***************************************************************************)
\* the last entry of the directory, or NULL
TailOf(st) == IF Dir(st) = << >> THEN NULL ELSE Dir(st)[Len(Dir(st))]

\* the call that is being made grows an allocated block that has a Free
\* next which is large enough
GrowIntoNext ==
    LET block == op'.ptr - META_SIZE
        next_block == NextOf(St, block)
    IN  /\ nops' = nops + 1 /\ op'.fn = "realloc"
        /\ op'.ptr \in DOMAIN live
        /\ block \in Range(Dir(St))
        /\ Status(St, block) = STATUS_ALLOC
        /\ next_block # NULL /\ next_block \in Range(Dir(St))
        /\ Status(St, next_block) = STATUS_FREE
        /\ last = TailOf(St)
        /\ Align(op'.size) > Size(St, block)
        /\ Size(St, block) + META_SIZE + Size(St, next_block) >= Align(op'.size)

C19_GrowByCoalescing ==
    [][GrowIntoNext =>
          LET block == op'.ptr - META_SIZE
              next_block == NextOf(St, block)
              size == Align(op'.size)
              excess == Size(St, block) + META_SIZE + Size(St, next_block) - size
              remaining_block == block + size + META_SIZE
          IN  /\ fault' = "none"
              /\ op'.ret = op'.ptr
              /\ Size(St', block) >= size
              /\ Status(St', block) = STATUS_ALLOC
              /\ excess = 0 => next_block \notin Range(Dir(St'))
              /\ excess > META_SIZE =>
                    /\ NextInDir(St', block, remaining_block)
                    /\ Status(St', remaining_block) = STATUS_FREE
                    /\ Size(St', remaining_block) = excess - META_SIZE
              /\ brk' = brk
              /\ \A i \in 1 .. Len(Dir(St')) - 1 :
                    Prev(St', Dir(St')[i + 1]) = Dir(St')[i]
              /\ last' = TailOf(St')]_vars

(***************************************************************************)
(* C20.  The break never goes down: in every call, every sbrk is made with *)
(* an increment that is not negative, and the break after the call is not  *)
(* below the break before it.                                              *)
(***************************************************************************)
C20_BreakNeverLowered ==
    [][/\ \A i \in 1 .. Len(calls') :
             calls'[i].fn = "sbrk" => calls'[i].n >= 0
       /\ brk' >= brk]_vars

====
